---- MODULE Spec2Model ----
(***************************************************************************)
(* Model of src/kb_cli_gemini.py: one invocation of main(), the methods of *)
(* MindsDBGeminiKBCLI it calls, and the remote MindsDB client they talk    *)
(* to.  Strings whose characters matter (error messages, the search query) *)
(* are sequences of one-character strings.  A remote error is the client's *)
(* exception type, MindsDBException, which is what the handlers catch.     *)
(***************************************************************************)
EXTENDS Integers, Sequences, FiniteSets

VARIABLES
    args,              \* argparse namespace of the invocation
    pc,                \* position of main
    outcome,           \* "running", "returned" or "raised"
    exc,               \* the exception that left main
    df,                \* columns of the loaded table
    id_column, content_columns, metadata_columns,
    results,           \* main's results variable
    job,               \* job handle held by the running method
    calls,             \* remote operations issued so far, in order
    stmt,              \* last statement handed to the client
    resp,              \* the client's answer received or handled by the last step
    outstanding,       \* platform side: jobs not yet in a final status
    logged,            \* records written to the log by the last step
    printed            \* lines written to stdout by the last step

vars == <<args, pc, outcome, exc, df, id_column, content_columns, metadata_columns,
          results, job, calls, stmt, resp, outstanding, logged, printed>>

locals == <<df, id_column, content_columns, metadata_columns, results, job>>

----------------------------------------------------------------------------
(* Bounds *)

MaxCols == 2
MaxQueryLen == 2
MaxRows == 1

(* Program constants *)

DefaultLimit == 10

----------------------------------------------------------------------------
(* Values *)

None == "None"

ColNames == {"id", "content", "a"}
QueryChars == {"'", "a", "%"}

SeqsUpTo(S, n) == UNION {[1..k -> S] : k \in 0..n}

IsInjective(s) == \A i, j \in 1..Len(s) : s[i] = s[j] => i = j

\* column headers of a readable CSV file: distinct names, at least one column
Tables == {t \in SeqsUpTo(ColNames, MaxCols) : Len(t) >= 1 /\ IsInjective(t)}

Queries == SeqsUpTo(QueryChars, MaxQueryLen)

Range(s) == {s[i] : i \in 1..Len(s)}

\* python truthiness of an optional string argument
Truthy(x) == x # None /\ x # ""

----------------------------------------------------------------------------
(* Characters: str.lower(), substring test, str.replace() *)

ToLower(c) ==
    CASE c = "A" -> "a" [] c = "L" -> "l" [] c = "R" -> "r" [] c = "E" -> "e"
      [] c = "D" -> "d" [] c = "Y" -> "y" [] c = "X" -> "x" [] c = "I" -> "i"
      [] c = "S" -> "s" [] c = "T" -> "t" [] OTHER -> c

ToUpper(c) ==
    CASE c = "a" -> "A" [] c = "l" -> "L" [] c = "r" -> "R" [] c = "e" -> "E"
      [] c = "d" -> "D" [] c = "y" -> "Y" [] c = "x" -> "X" [] c = "i" -> "I"
      [] c = "s" -> "S" [] c = "t" -> "T" [] OTHER -> c

\* str.lower()
Lower(s) == [i \in 1..Len(s) |-> ToLower(s[i])]

\* sub in s
Contains(sub, s) ==
    \E i \in 0..(Len(s) - Len(sub)) : SubSeq(s, i + 1, i + Len(sub)) = sub

AlreadyExists == <<"a","l","r","e","a","d","y"," ","e","x","i","s","t","s">>

\* the test without .lower()
IsAlreadyExists_CaseSensitive(msg) == Contains(AlreadyExists, msg)

\* if "already exists": a non-empty literal is always true
IsAlreadyExists_Always(msg) == TRUE

\* "already exists" in str(e).lower()
IsAlreadyExists(msg) == Contains(AlreadyExists, Lower(msg))

\* query.replace("'", "''", 1): only the first occurrence replaced
ReplaceQuote_First(s) ==
    IF \E i \in 1..Len(s) : s[i] = "'"
    THEN LET i == CHOOSE k \in 1..Len(s) :
                    s[k] = "'" /\ \A m \in 1..(k - 1) : s[m] # "'"
         IN  SubSeq(s, 1, i) \o <<"'">> \o SubSeq(s, i + 1, Len(s))
    ELSE s

\* query.replace("'", "''"): scan left to right, each occurrence replaced
RECURSIVE ReplaceQuote(_)
ReplaceQuote(s) ==
    IF s = <<>> THEN <<>>
    ELSE IF Head(s) = "'" THEN <<"'", "'">> \o ReplaceQuote(Tail(s))
    ELSE <<Head(s)>> \o ReplaceQuote(Tail(s))

----------------------------------------------------------------------------
(* Remote error messages *)

WithUpper(s, U) == [i \in 1..Len(s) |-> IF i \in U THEN ToUpper(s[i]) ELSE s[i]]

Padded(t) == <<"E", ":", " ">> \o t \o <<".">>

\* "already exists", "ALREADY EXISTS", "E: Already Exists."
ExistsTexts ==
    {AlreadyExists, WithUpper(AlreadyExists, 1..Len(AlreadyExists)),
     Padded(WithUpper(AlreadyExists, {1, 9}))}

\* "already exist", "E: alreadyexists.", "timeout"
OtherTexts ==
    {SubSeq(AlreadyExists, 1, 13),
     Padded(SubSeq(AlreadyExists, 1, 7) \o SubSeq(AlreadyExists, 9, 14)),
     <<"t", "i", "m", "e", "o", "u", "t">>}

\* str(e) of the errors the client raises
Messages == ExistsTexts \cup OtherTexts

----------------------------------------------------------------------------
(* Column partition of main *)

\* "id" if "id" in df.columns else df.columns[0]
IdColumn(cols) == IF "id" \in Range(cols) THEN "id" ELSE cols[1]

\* [col for col in cols if P(col)]
RECURSIVE Filter(_, _)
Filter(cols, keep) ==
    IF cols = <<>> THEN <<>>
    ELSE IF Head(cols) \in keep THEN <<Head(cols)>> \o Filter(Tail(cols), keep)
    ELSE Filter(Tail(cols), keep)

\* ["content"] if "content" in df.columns else [col for col in df.columns if col != id_column]
ContentColumns(cols, idc) ==
    IF "content" \in Range(cols) THEN <<"content">>
    ELSE Filter(cols, Range(cols) \ {idc})

\* [col for col in df.columns if col not in content_columns + [id_column]]
MetadataColumns(cols, cc, idc) == Filter(cols, Range(cols) \ (Range(cc) \cup {idc}))

----------------------------------------------------------------------------
(* The remote client: answers, errors, jobs *)

RowVals == {"r1", "r2"}

\* python values a query can return: None, or a sequence of rows
NoneResult == [none |-> TRUE, rows |-> <<>>]
Rows(r) == [none |-> FALSE, rows |-> r]
ResultSets == {NoneResult} \cup {Rows(r) : r \in SeqsUpTo(RowVals, MaxRows)}

NoResp == [kind |-> "none", msg |-> <<>>, result |-> NoneResult]

\* the call returned normally
Ok(result) == [kind |-> "ok", msg |-> <<>>, result |-> result]

\* the call raised MindsDBException(msg)
Errors == {[kind |-> "error", msg |-> m, result |-> NoneResult] : m \in Messages}

\* answers to a statement without a result set, and to a SELECT
Answers == {Ok(NoneResult)} \cup Errors
SelectAnswers == {Ok(r) : r \in ResultSets} \cup Errors

FinalStatus == {"completed", "failed", "cancelled"}

NoExc == [type |-> "none", msg |-> <<>>]

NoJob == [id |-> 0, status |-> "none"]

Entry(level, event, status) == [level |-> level, event |-> event, status |-> status]

\* f"{self.project}.{name}" if self.project else name
FullName(name) == IF Truthy(args.project) THEN <<args.project, name>> ELSE <<name>>

engine_name == "google_gemini_engine"

\* x or default, for a list
OrDefault(x, default) == IF x = <<>> THEN default ELSE x

Goto(p) == pc' = p /\ UNCHANGED <<outcome, exc>>

\* the exception leaves main: the invocation ends with an uncaught failure
Raise(type, msg) ==
    /\ outcome' = "raised"
    /\ exc' = [type |-> type, msg |-> msg]
    /\ pc' = "done"

\* main returns
Return == outcome' = "returned" /\ pc' = "done" /\ UNCHANGED exc

\* a job makes progress on the platform; a handle on it sees its final status
JobRun ==
    /\ \E j \in outstanding :
         \/ /\ j.status = "submitted"
            /\ outstanding' = (outstanding \ {j}) \cup {[j EXCEPT !.status = "running"]}
            /\ UNCHANGED job
         \/ /\ j.status = "running"
            /\ outstanding' = outstanding \ {j}
            /\ \E st \in FinalStatus :
                 job' = IF job.id = j.id THEN [job EXCEPT !.status = st] ELSE job
    /\ UNCHANGED <<args, pc, outcome, exc, df, id_column, content_columns,
                   metadata_columns, results, calls, stmt, resp, logged, printed>>

\* the platform accepts a job and the client returns a handle on it
Submit(kind) ==
    /\ outstanding' = outstanding \cup {[id |-> Len(calls) + 1, kind |-> kind,
                                         status |-> "submitted"]}
    /\ job' = [id |-> Len(calls) + 1, status |-> "pending"]

----------------------------------------------------------------------------
(* MindsDBGeminiKBCLI.__init__ *)

Construct ==
    /\ pc = "init"
    /\ IF Truthy(args.project)
       THEN /\ calls' = Append(calls, "projects.get")
            /\ resp' \in Answers
            /\ IF resp'.kind = "error"
               THEN Raise("MindsDBException", resp'.msg)
               ELSE Goto("engine")
       ELSE Goto("engine") /\ UNCHANGED <<calls, resp>>
    /\ logged' = <<>>
    /\ printed' = <<>>
    /\ UNCHANGED <<args, locals, stmt, outstanding>>

(* create_gemini_engine *)

create_gemini_engine ==
    /\ pc = "engine"
    /\ IF Truthy(args.gemini_api_key)
       THEN /\ logged' = <<Entry("info", "creating_engine", "")>>
            /\ stmt' = [kind |-> "CREATE ML_ENGINE", name |-> engine_name,
                        api_key |-> args.gemini_api_key]
            /\ calls' = Append(calls, "CREATE ML_ENGINE")
            /\ resp' \in Answers
            /\ Goto("engine_ret")
       ELSE /\ Goto("ingest")
            /\ logged' = <<>>
            /\ resp' = NoResp
            /\ UNCHANGED <<stmt, calls>>
    /\ printed' = <<>>
    /\ UNCHANGED <<args, locals, outstanding>>

create_gemini_engine_except ==
    /\ pc = "engine_ret"
    /\ IF resp.kind = "ok"
       THEN /\ logged' = <<Entry("info", "engine_created", "")>>
            /\ Goto("ingest")
       ELSE IF IsAlreadyExists(resp.msg)
       THEN /\ logged' = <<Entry("warning", "engine_exists", "")>>
            /\ Goto("ingest")
       ELSE /\ logged' = <<Entry("error", "engine_failed", "")>>
            /\ Raise("MindsDBException", resp.msg)
    /\ printed' = <<>>
    /\ UNCHANGED <<args, locals, calls, stmt, resp, outstanding>>

(* load_csv and the column partition of main *)

load_csv ==
    /\ pc = "ingest"
    /\ IF Truthy(args.kb_name) /\ Truthy(args.input_file)
       THEN \/ /\ logged' = <<Entry("error", "load_failed", "")>>
               /\ Raise("Exception", <<>>)
               /\ UNCHANGED <<df, id_column, content_columns, metadata_columns>>
            \/ \E t \in Tables :
                 /\ df' = t
                 /\ logged' = <<Entry("info", "loaded", "")>>
                 /\ id_column' = IdColumn(t)
                 /\ content_columns' = ContentColumns(t, IdColumn(t))
                 /\ metadata_columns' =
                      MetadataColumns(t, ContentColumns(t, IdColumn(t)), IdColumn(t))
                 /\ Goto("kb_create")
       ELSE /\ Goto("search")
            /\ logged' = <<>>
            /\ UNCHANGED <<df, id_column, content_columns, metadata_columns>>
    /\ resp' = NoResp
    /\ printed' = <<>>
    /\ UNCHANGED <<args, results, job, calls, stmt, outstanding>>

(* create_knowledge_base *)

CreateKbStatement(kb_name, engine, metadata, content, idc) ==
    [kind |-> "CREATE KNOWLEDGE_BASE", name |-> FullName(kb_name),
     embedding_engine |-> engine, reranking_engine |-> engine,
     metadata_columns |-> OrDefault(metadata, <<>>),
     content_columns |-> OrDefault(content, <<"content">>),
     id_column |-> idc]

create_knowledge_base ==
    /\ pc = "kb_create"
    /\ logged' = <<Entry("info", "creating_kb", "")>>
    /\ stmt' = CreateKbStatement(args.kb_name, engine_name, metadata_columns,
                                 content_columns, id_column)
    /\ calls' = Append(calls, "CREATE KNOWLEDGE_BASE")
    /\ resp' \in Answers
    /\ Goto("kb_ret")
    /\ printed' = <<>>
    /\ UNCHANGED <<args, locals, outstanding>>

create_knowledge_base_except ==
    /\ pc = "kb_ret"
    /\ IF resp.kind = "ok"
       THEN /\ logged' = <<Entry("info", "kb_created", "")>>
            /\ Goto("insert_get")
       ELSE IF IsAlreadyExists(resp.msg)
       THEN /\ logged' = <<Entry("warning", "kb_exists", "")>>
            /\ Goto("insert_get")
       ELSE /\ logged' = <<Entry("error", "kb_failed", "")>>
            /\ Raise("MindsDBException", resp.msg)
    /\ printed' = <<>>
    /\ UNCHANGED <<args, locals, calls, stmt, resp, outstanding>>

(* insert_data_with_job *)

\* kb = self.client.knowledge_bases.get(full_kb_name)
insert_data_with_job ==
    /\ pc = "insert_get"
    /\ calls' = Append(calls, "knowledge_bases.get")
    /\ resp' \in Answers
    /\ IF resp'.kind = "error"
       THEN /\ logged' = <<Entry("info", "insert_starting", ""),
                           Entry("error", "insert_failed", "")>>
            /\ Raise("MindsDBException", resp'.msg)
       ELSE /\ logged' = <<Entry("info", "insert_starting", "")>>
            /\ Goto("insert_submit")
    /\ printed' = <<>>
    /\ UNCHANGED <<args, locals, stmt, outstanding>>

\* job = kb.insert(df, async_mode=True); job.wait() is called and blocks
insert_data_with_job_submit ==
    /\ pc = "insert_submit"
    /\ resp' \in Answers
    /\ IF resp'.kind = "error"
       THEN /\ calls' = Append(calls, "kb.insert")
            /\ logged' = <<Entry("error", "insert_failed", "")>>
            /\ Raise("MindsDBException", resp'.msg)
            /\ UNCHANGED <<job, outstanding>>
       ELSE /\ calls' = calls \o <<"kb.insert", "job.wait">>
            /\ Submit("insert")
            /\ logged' = <<Entry("info", "insert_job_started", "")>>
            /\ Goto("insert_wait")
    /\ printed' = <<>>
    /\ UNCHANGED <<args, df, id_column, content_columns, metadata_columns, results,
                   stmt>>

\* a wait that does not block
WaitReturns_Always(j) == TRUE

\* a wait that polls for "completed" only
WaitReturns_OnlyCompleted(j) == j.status = "completed"

\* job.wait() returns once the job is in a final status
WaitReturns(j) == j.status \in FinalStatus

\* job.wait() returns: the status is logged and the method returns
insert_data_with_job_wait ==
    /\ pc = "insert_wait"
    /\ WaitReturns(job)
    /\ resp' = Ok(NoneResult)
    /\ logged' = <<Entry("info", "insert_job_completed", job.status)>>
    /\ Goto("index_submit")
    /\ job' = NoJob
    /\ printed' = <<>>
    /\ UNCHANGED <<args, df, id_column, content_columns, metadata_columns, results,
                   calls, stmt, outstanding>>

\* job.wait() raises
insert_data_with_job_wait_except ==
    /\ pc = "insert_wait"
    /\ resp' \in Errors
    /\ logged' = <<Entry("error", "insert_failed", "")>>
    /\ Raise("MindsDBException", resp'.msg)
    /\ job' = NoJob
    /\ printed' = <<>>
    /\ UNCHANGED <<args, df, id_column, content_columns, metadata_columns, results,
                   calls, stmt, outstanding>>

(* create_index_with_job *)

create_index_with_job ==
    /\ pc = "index_submit"
    /\ stmt' = [kind |-> "CREATE INDEX", name |-> FullName(args.kb_name)]
    /\ resp' \in Answers
    /\ IF resp'.kind = "error"
       THEN /\ calls' = Append(calls, "CREATE INDEX")
            /\ logged' = <<Entry("info", "index_starting", ""),
                           Entry("error", "index_failed", "")>>
            /\ Raise("MindsDBException", resp'.msg)
            /\ UNCHANGED <<job, outstanding>>
       ELSE /\ calls' = calls \o <<"CREATE INDEX", "job.wait">>
            /\ Submit("index")
            /\ logged' = <<Entry("info", "index_starting", ""),
                           Entry("info", "index_job_started", "")>>
            /\ Goto("index_wait")
    /\ printed' = <<>>
    /\ UNCHANGED <<args, df, id_column, content_columns, metadata_columns, results>>

create_index_with_job_wait ==
    /\ pc = "index_wait"
    /\ WaitReturns(job)
    /\ resp' = Ok(NoneResult)
    /\ logged' = <<Entry("info", "index_job_completed", job.status)>>
    /\ Goto("search")
    /\ job' = NoJob
    /\ printed' = <<>>
    /\ UNCHANGED <<args, df, id_column, content_columns, metadata_columns, results,
                   calls, stmt, outstanding>>

create_index_with_job_wait_except ==
    /\ pc = "index_wait"
    /\ resp' \in Errors
    /\ logged' = <<Entry("error", "index_failed", "")>>
    /\ Raise("MindsDBException", resp'.msg)
    /\ job' = NoJob
    /\ printed' = <<>>
    /\ UNCHANGED <<args, df, id_column, content_columns, metadata_columns, results,
                   calls, stmt, outstanding>>

(* semantic_search *)

SearchStatement(kb_name, query, limit, relevance_threshold) ==
    [kind |-> "SELECT KB", from |-> FullName(kb_name),
     like |-> <<"'">> \o ReplaceQuote(query) \o <<"'">>,
     relevance_threshold |-> relevance_threshold, limit |-> limit]

semantic_search ==
    /\ pc = "search"
    /\ IF Truthy(args.kb_name) /\ args.query # <<>>
       THEN /\ logged' = <<Entry("info", "searching", "")>>
            /\ stmt' = SearchStatement(args.kb_name, args.query, args.limit,
                                       args.relevance_threshold)
            /\ calls' = Append(calls, "SELECT KB")
            /\ resp' \in SelectAnswers
            /\ Goto("search_ret")
       ELSE /\ Goto("ai_create")
            /\ logged' = <<>>
            /\ resp' = NoResp
            /\ UNCHANGED <<stmt, calls>>
    /\ printed' = <<>>
    /\ UNCHANGED <<args, locals, outstanding>>

\* return result, whatever it is
Returned_Raw(r) == r

\* if not result or len(result) == 0: return []   else: return result
Returned(r) == IF r.none \/ Len(r.rows) = 0 THEN Rows(<<>>) ELSE r

\* if results: print(header); for row in results: print(row)
PrintRows(header, r) ==
    IF ~r.none /\ Len(r.rows) # 0 THEN <<header>> \o r.rows ELSE <<>>

semantic_search_return ==
    /\ pc = "search_ret"
    /\ IF resp.kind = "error"
       THEN /\ logged' = <<Entry("error", "search_failed", "")>>
            /\ Raise("MindsDBException", resp.msg)
            /\ printed' = <<>>
            /\ UNCHANGED results
       ELSE /\ logged' = IF resp.result.none \/ Len(resp.result.rows) = 0
                         THEN <<Entry("info", "no_results", "")>>
                         ELSE <<>>
            /\ results' = Returned(resp.result)
            /\ printed' = PrintRows("Semantic Search Results:", Returned(resp.result))
            /\ Goto("ai_create")
    /\ UNCHANGED <<args, df, id_column, content_columns, metadata_columns, job,
                   calls, stmt, resp, outstanding>>

(* create_ai_table *)

\* the check with output_column left out of the list
AiArgsComplete_NoOutput ==
    /\ Truthy(args.ai_table_name)
    /\ Truthy(args.source_table)
    /\ Truthy(args.task_type)
    /\ args.input_columns # <<>>

\* all([ai_table_name, source_table, task_type, input_columns, output_column])
AiArgsComplete ==
    /\ Truthy(args.ai_table_name)
    /\ Truthy(args.source_table)
    /\ Truthy(args.task_type)
    /\ args.input_columns # <<>>
    /\ Truthy(args.output_column)

create_ai_table ==
    /\ pc = "ai_create"
    /\ IF ~args.create_ai_table
       THEN /\ Goto("ai_query")
            /\ logged' = <<>>
            /\ resp' = NoResp
            /\ UNCHANGED <<stmt, calls>>
       ELSE IF ~AiArgsComplete
       THEN /\ logged' = <<Entry("error", "ai_table_args", "")>>
            /\ Return
            /\ resp' = NoResp
            /\ UNCHANGED <<stmt, calls>>
       ELSE /\ logged' = <<Entry("info", "creating_ai_table", "")>>
            /\ stmt' = [kind |-> "CREATE AI TABLE", name |-> FullName(args.ai_table_name),
                        select |-> args.input_columns, from |-> args.source_table,
                        predict |-> args.output_column, task |-> args.task_type]
            /\ calls' = Append(calls, "CREATE AI TABLE")
            /\ resp' \in Answers
            /\ Goto("ai_create_ret")
    /\ printed' = <<>>
    /\ UNCHANGED <<args, locals, outstanding>>

create_ai_table_except ==
    /\ pc = "ai_create_ret"
    /\ IF resp.kind = "ok"
       THEN /\ logged' = <<Entry("info", "ai_table_created", "")>>
            /\ Goto("ai_query")
       ELSE IF IsAlreadyExists(resp.msg)
       THEN /\ logged' = <<Entry("warning", "ai_table_exists", "")>>
            /\ Goto("ai_query")
       ELSE /\ logged' = <<Entry("error", "ai_table_failed", "")>>
            /\ Raise("MindsDBException", resp.msg)
    /\ printed' = <<>>
    /\ UNCHANGED <<args, locals, calls, stmt, resp, outstanding>>

(* query_ai_table *)

query_ai_table ==
    /\ pc = "ai_query"
    /\ IF args.query_ai_table /\ Truthy(args.ai_table_name)
       THEN /\ logged' = <<Entry("info", "querying_ai_table", "")>>
            /\ stmt' = [kind |-> "SELECT AI", from |-> FullName(args.ai_table_name),
                        where |-> IF Truthy(args.ai_query_filter)
                                  THEN args.ai_query_filter ELSE "",
                        limit |-> args.limit]
            /\ calls' = Append(calls, "SELECT AI")
            /\ resp' \in SelectAnswers
            /\ Goto("ai_query_ret")
       ELSE /\ Return
            /\ logged' = <<>>
            /\ resp' = NoResp
            /\ UNCHANGED <<stmt, calls>>
    /\ printed' = <<>>
    /\ UNCHANGED <<args, locals, outstanding>>

query_ai_table_return ==
    /\ pc = "ai_query_ret"
    /\ IF resp.kind = "error"
       THEN /\ logged' = <<Entry("error", "ai_query_failed", "")>>
            /\ Raise("MindsDBException", resp.msg)
            /\ printed' = <<>>
            /\ UNCHANGED results
       ELSE /\ logged' = IF resp.result.none \/ Len(resp.result.rows) = 0
                         THEN <<Entry("info", "no_ai_results", "")>>
                         ELSE <<>>
            /\ results' = Returned(resp.result)
            /\ printed' = PrintRows("AI Table Query Results:", Returned(resp.result))
            /\ Return
    /\ UNCHANGED <<args, df, id_column, content_columns, metadata_columns, job,
                   calls, stmt, resp, outstanding>>

----------------------------------------------------------------------------
(* One invocation of main *)

Opt(v) == {None, v}

\* argparse namespaces with --query drawn from Q; an absent --query or
\* --input_columns is the empty sequence
Args(Q) ==
    [project : Opt("proj"), gemini_api_key : Opt("gkey"), kb_name : Opt("kb"),
     input_file : Opt("data.csv"), query : Q, limit : {DefaultLimit},
     relevance_threshold : {"0.5"}, create_ai_table : BOOLEAN,
     ai_table_name : Opt("t"), source_table : Opt("src"),
     task_type : Opt("summarization"), input_columns : {<<>>, <<"a">>},
     output_column : Opt("out"), query_ai_table : BOOLEAN,
     ai_query_filter : Opt("x > 1")]

\* every section of main runs: only --project and the query text vary
SearchArgs ==
    [project : Opt("proj"), gemini_api_key : {"gkey"}, kb_name : {"kb"},
     input_file : {"data.csv"}, query : Queries \ {<<>>}, limit : {DefaultLimit},
     relevance_threshold : {"0.5"}, create_ai_table : {TRUE},
     ai_table_name : {"t"}, source_table : {"src"},
     task_type : {"summarization"}, input_columns : {<<"a">>},
     output_column : {"out"}, query_ai_table : {TRUE},
     ai_query_filter : Opt("x > 1")]

Start ==
    /\ pc = "init"
    /\ outcome = "running"
    /\ exc = NoExc
    /\ df = <<>>
    /\ id_column = None
    /\ content_columns = <<>>
    /\ metadata_columns = <<>>
    /\ results = Rows(<<>>)
    /\ job = NoJob
    /\ calls = <<>>
    /\ stmt = [kind |-> "none"]
    /\ resp = NoResp
    /\ outstanding = {}
    /\ logged = <<>>
    /\ printed = <<>>

\* any combination of arguments, with or without a query
Init == args \in Args({<<>>, <<"a", "'">>}) /\ Start

\* any query text
InitSearch == args \in SearchArgs /\ Start

Next ==
    \/ Construct
    \/ create_gemini_engine
    \/ create_gemini_engine_except
    \/ load_csv
    \/ create_knowledge_base
    \/ create_knowledge_base_except
    \/ insert_data_with_job
    \/ insert_data_with_job_submit
    \/ insert_data_with_job_wait
    \/ insert_data_with_job_wait_except
    \/ create_index_with_job
    \/ create_index_with_job_wait
    \/ create_index_with_job_wait_except
    \/ semantic_search
    \/ semantic_search_return
    \/ create_ai_table
    \/ create_ai_table_except
    \/ query_ai_table
    \/ query_ai_table_return
    \/ JobRun

Spec == Init /\ [][Next]_vars

SpecSearch == InitSearch /\ [][Next]_vars

----------------------------------------------------------------------------
(* Properties *)

Last(s) == s[Len(s)]

LastCall == IF calls = <<>> THEN "none" ELSE Last(calls)

Levels(l) == {l[i].level : i \in 1..Len(l)}

\* the answer in resp has gone through the try/except of the method that got it
Handled == pc \notin {"engine_ret", "kb_ret", "search_ret", "ai_create_ret", "ai_query_ret"}

\* msg has the words "already exists" somewhere, each letter in either case
MentionsAlreadyExists(msg) ==
    \E i \in 0..(Len(msg) - Len(AlreadyExists)) :
        \A k \in 1..Len(AlreadyExists) :
            msg[i + k] \in {AlreadyExists[k], ToUpper(AlreadyExists[k])}

CreateCalls == {"CREATE ML_ENGINE", "CREATE KNOWLEDGE_BASE", "CREATE AI TABLE"}

\* where main goes on after a creation that succeeded
ContinuesAt(call) ==
    CASE call = "CREATE ML_ENGINE" -> "ingest"
      [] call = "CREATE KNOWLEDGE_BASE" -> "insert_get"
      [] call = "CREATE AI TABLE" -> "ai_query"

\* C1: the identifier column, the content columns and the metadata columns main
\* computes for a table are pairwise disjoint and together cover its columns.
C1_PartitionDisjointExhaustive ==
    df # <<>> =>
        LET I == {id_column}
            C == Range(content_columns)
            M == Range(metadata_columns)
        IN  /\ I \cap C = {}
            /\ I \cap M = {}
            /\ C \cap M = {}
            /\ I \cup C \cup M = Range(df)

\* C2: an error answering the creation of the engine, the knowledge base or the
\* AI table whose message has "already exists" in any letter case is logged as a
\* warning, nothing is raised, and main goes on where a successful creation goes on.
C2_AlreadyExistsIsWarning ==
    (Handled /\ resp.kind = "error" /\ LastCall \in CreateCalls
       /\ MentionsAlreadyExists(resp.msg))
      => /\ outcome = "running"
         /\ exc = NoExc
         /\ Levels(logged) = {"warning"}
         /\ pc = ContinuesAt(LastCall)

C2_Witness ==
    /\ Handled
    /\ LastCall = "CREATE KNOWLEDGE_BASE"
    /\ resp.kind = "error"
    /\ resp.msg = WithUpper(AlreadyExists, 1..Len(AlreadyExists))
    /\ pc = "insert_get"
    /\ Levels(logged) = {"warning"}

\* C3: an "already exists" error answering the index-creation request is logged
\* as a warning and create_index_with_job returns normally.
C3_IndexAlreadyExistsIsWarning ==
    (Handled /\ resp.kind = "error" /\ LastCall = "CREATE INDEX"
       /\ MentionsAlreadyExists(resp.msg))
      => /\ outcome = "running"
         /\ "warning" \in Levels(logged)

LoggedCalls ==
    CreateCalls \cup {"knowledge_bases.get", "kb.insert", "job.wait", "CREATE INDEX",
                      "SELECT KB", "SELECT AI"}

\* C4: an error of a creation, insert-job, index-job, search or AI-table-query
\* call whose message does not mention "already exists" is logged at error level
\* and leaves main as that same error; after it no remote operation is issued.
C4_OtherErrorsLoggedAndRaised ==
    /\ []((Handled /\ resp.kind = "error" /\ LastCall \in LoggedCalls
             /\ ~MentionsAlreadyExists(resp.msg))
            => /\ outcome = "raised"
               /\ pc = "done"
               /\ exc = [type |-> "MindsDBException", msg |-> resp.msg]
               /\ logged # <<>>
               /\ Last(logged).level = "error")
    /\ [][outcome = "raised" => (calls' = calls /\ outcome' = "raised")]_vars

C4_Witness ==
    /\ outcome = "raised"
    /\ LastCall = "CREATE AI TABLE"
    /\ resp.msg = SubSeq(AlreadyExists, 1, 13)
    /\ exc.msg = resp.msg
    /\ Last(logged).level = "error"

QuotesBefore(q, i) == Cardinality({j \in 1..(i - 1) : q[j] = "'"})

\* C5: in the LIKE literal of the search statement every single quote of the
\* query appears as two consecutive single quotes and every other character is
\* copied unchanged, so every run of quotes inside the literal has even length.
C5_QuotesDoubled ==
    stmt.kind = "SELECT KB" =>
        LET lit == stmt.like
            body == SubSeq(lit, 2, Len(lit) - 1)
            q == args.query
            at(i) == i + QuotesBefore(q, i)
        IN  /\ Len(lit) >= 2 /\ lit[1] = "'" /\ lit[Len(lit)] = "'"
            /\ Len(body) = Len(q) + QuotesBefore(q, Len(q) + 1)
            /\ \A i \in 1..Len(q) :
                 /\ body[at(i)] = q[i]
                 /\ q[i] = "'" => body[at(i) + 1] = "'"
            /\ \A a, b \in 1..Len(body) :
                 (/\ a <= b
                  /\ \A k \in a..b : body[k] = "'"
                  /\ a = 1 \/ body[a - 1] # "'"
                  /\ b = Len(body) \/ body[b + 1] # "'")
                   => (b - a + 1) % 2 = 0

C5_Witness ==
    /\ stmt.kind = "SELECT KB"
    /\ Len(args.query) >= 2
    /\ args.query[1] # "'"
    /\ args.query[2] = "'"
    /\ stmt.like = <<"'", args.query[1], "'", "'">> \o SubSeq(args.query, 3, Len(args.query))
                     \o <<"'">>

\* C6: semantic_search and query_ai_table return an empty sequence, without
\* raising, when the client returns None or no rows, and main then prints nothing;
\* they return the client's rows unchanged otherwise.
C6_EmptyResultIsEmptySequence ==
    (Handled /\ resp.kind = "ok" /\ LastCall \in {"SELECT KB", "SELECT AI"})
      => /\ outcome # "raised"
         /\ IF resp.result.none \/ resp.result.rows = <<>>
            THEN results = Rows(<<>>) /\ printed = <<>>
            ELSE results = resp.result

C6_Witness ==
    /\ Handled
    /\ LastCall = "SELECT AI"
    /\ resp.kind = "ok"
    /\ resp.result.none
    /\ results = Rows(<<>>)
    /\ outcome = "returned"

NoOutputColumn == args.create_ai_table /\ ~Truthy(args.output_column)

\* C7 as stated: with --create_ai_table and no --output_column the invocation
\* logs an error, returns without raising and issues no remote call, whatever the
\* other arguments are.
C7_NoRemoteCall ==
    NoOutputColumn =>
        /\ calls = <<>>
        /\ outcome # "raised"
        /\ pc = "done" => logged = <<Entry("error", "ai_table_args", "")>>

\* C7 amended: with --create_ai_table and no --output_column no AI-table call
\* (create or query) is ever issued, main never goes past the argument check, and
\* when it returns it has just logged the error; it raises only from an earlier
\* step (project lookup, engine, ingestion, search), whose calls are still issued.
C7_NoAiTableCall ==
    NoOutputColumn =>
        /\ Range(calls) \cap {"CREATE AI TABLE", "SELECT AI"} = {}
        /\ pc \notin {"ai_create_ret", "ai_query", "ai_query_ret"}
        /\ outcome = "returned" => logged = <<Entry("error", "ai_table_args", "")>>
        /\ outcome = "raised" =>
             \/ exc.type = "Exception"
             \/ resp.kind = "error" /\ exc.msg = resp.msg

C7_Witness ==
    /\ NoOutputColumn
    /\ outcome = "returned"
    /\ logged = <<Entry("error", "ai_table_args", "")>>
    /\ "CREATE ML_ENGINE" \in Range(calls)
    /\ "SELECT KB" \in Range(calls)

RuleId(cols) == IF \E i \in 1..Len(cols) : cols[i] = "id" THEN "id" ELSE cols[1]

RuleContent(cols) ==
    IF \E i \in 1..Len(cols) : cols[i] = "content"
    THEN <<"content">>
    ELSE SelectSeq(cols, LAMBDA c : c # RuleId(cols))

RuleMetadata(cols) ==
    SelectSeq(cols, LAMBDA c : c # RuleId(cols) /\ c \notin Range(RuleContent(cols)))

\* C8: the create-knowledge-base statement names exactly the identifier, content
\* and metadata columns the partition rule gives for the table, also when the
\* content or metadata set is empty.
C8_StatementNamesPartition ==
    stmt.kind = "CREATE KNOWLEDGE_BASE" =>
        /\ stmt.id_column = RuleId(df)
        /\ stmt.content_columns = RuleContent(df)
        /\ stmt.metadata_columns = RuleMetadata(df)

IsPrefix(s, t) == Len(s) <= Len(t) /\ SubSeq(t, 1, Len(s)) = s

KbOrder ==
    <<"CREATE KNOWLEDGE_BASE", "kb.insert", "job.wait", "CREATE INDEX", "job.wait",
      "SELECT KB">>

KbCalls == SelectSeq(calls, LAMBDA c : c \in Range(KbOrder))

\* C9: with --kb_name and --input_file the knowledge-base operations are issued
\* in the order create, insert, wait, index, wait, search; the index job is
\* submitted only when the insert job is no longer outstanding, the search only
\* when no job is, and at most one job is outstanding at any time.
C9_FixedOrderOneJob ==
    (Truthy(args.kb_name) /\ Truthy(args.input_file)) =>
        /\ IsPrefix(KbCalls, KbOrder)
        /\ Cardinality(outstanding) <= 1
        /\ "CREATE INDEX" \in Range(calls) => \A j \in outstanding : j.kind # "insert"
        /\ "SELECT KB" \in Range(calls) => outstanding = {}

C9_Witness ==
    /\ Truthy(args.input_file)
    /\ KbCalls = KbOrder
    /\ outstanding = {}

\* C10: once the insert job is in a final status, whichever it is, the wait can
\* return; when the wait is left without an error, that status has been logged,
\* nothing is raised and main is about to submit the index job, which is the
\* next remote operation; the wait is left raising only with an error of the client.
C10_AnyFinalStatusContinues ==
    /\ []((pc = "insert_wait" /\ job.status \in FinalStatus)
            => ENABLED insert_data_with_job_wait)
    /\ [][(pc = "insert_wait" /\ pc' # "insert_wait") =>
            IF resp'.kind = "error"
            THEN outcome' = "raised"
            ELSE /\ job.status \in FinalStatus
                 /\ logged' = <<Entry("info", "insert_job_completed", job.status)>>
                 /\ outcome' = "running"
                 /\ pc' = "index_submit"]_vars
    /\ [][(pc = "index_submit" /\ pc' # "index_submit") =>
            calls'[Len(calls) + 1] = "CREATE INDEX"]_vars

C10_Witness ==
    /\ pc = "index_submit"
    /\ outcome = "running"
    /\ logged = <<Entry("info", "insert_job_completed", "failed")>>

====
